---- MODULE Spec2Model ----
(***************************************************************************)
(* A model of trace_fitter.py: the TES/FET trace fitting script.           *)
(*                                                                         *)
(* Python sequences are modelled as TLA+ sequences; every index that the   *)
(* program computes is kept as the Python (0-based) index, and At(s, i)    *)
(* reads s[i].  Sample values and bin times are small integers; every      *)
(* floating-point threshold factor of the source (0.2, 0.1, 0.2*e, 0.8,    *)
(* 0.4/e, 1/(2e)) is a ratio num/den compared by cross-multiplication,     *)
(* which on these integers decides exactly as the float comparison does.  *)
(* A raised Python exception is an outcome record whose st field names     *)
(* the exception type.                                                     *)
(***************************************************************************)
EXTENDS Integers, Sequences, FiniteSets, TLC

\* ------------------------------------------------------------------ bounds

\* Longest trace (number of samples) the model enumerates.
MaxLen == 4

\* Longest command line, in words after the program name.
MaxArgv == 3

\* Sample values: an undershoot, the baseline, a peak, and a value that is
\* above 0.2*peak and exactly at 0.5*peak.
Values == {-1, 0, 5, 10}

\* Time of the first bin; bins are then spaced by one microsecond.
BinStarts == {-1, 0}

\* Rational cut fractions for fittingRange: the default 0.2, 0.5, and 1.
Cuts == {<<1, 5>>, <<1, 2>>, <<1, 1>>}

\* ------------------------------------------------------- Python sequences

None == "None"

At(s, i) == s[i + 1]

Slice(s, lo, hi) == [k \in 1..(IF hi > lo THEN hi - lo ELSE 0) |-> s[lo + k]]

SetMax(S) == CHOOSE x \in S : \A y \in S : y <= x

SetMin(S) == CHOOSE x \in S : \A y \in S : x <= y

Range(s) == {s[k] : k \in 1..Len(s)}

PyMax(s) == SetMax(Range(s))

PyMin(s) == SetMin(Range(s))

\* numpy argmax / list.index(max): the first index holding the maximum.
ArgMax(s) == SetMin({i \in 0..(Len(s) - 1) : At(s, i) = PyMax(s)})

ArgMin(s) == SetMin({i \in 0..(Len(s) - 1) : At(s, i) = PyMin(s)})

\* np.nonzero(s[lo:hi] <= (num/den)*ref)[0], as indices relative to lo.
NonzeroLE(s, lo, hi, num, den, ref) ==
    {i \in 0..(hi - lo - 1) : At(s, lo + i) * den <= num * ref}

\* np.nonzero(s[lo:hi] >= (num/den)*ref)[0], as indices relative to lo.
NonzeroGE(s, lo, hi, num, den, ref) ==
    {i \in 0..(hi - lo - 1) : At(s, lo + i) * den >= num * ref}

\* The bin axis of a trace of n samples starting at time b0.
BinAxis(b0, n) == [k \in 1..n |-> b0 + k - 1]

Traces == UNION {[1..n -> Values] : n \in 0..MaxLen}

\* Outcome records of a call: st is "ok" or the exception raised.
Ok(v) == [st |-> "ok", val |-> v]

Raise(e) == [st |-> e, val |-> <<>>]

\* --------------------------------------------------- numpy float64 values

(***************************************************************************)
(* A float64 is a record [k, sign, m, e].  k is "fin" for a finite nonzero *)
(* value, "zero", "inf" or "nan"; sign is 1 or -1.  A finite nonzero value *)
(* is sign * m * 2^(e - 52), its 53-bit significand m, 2^52 <= m < 2^53,   *)
(* held as four limbs of 14 bits, least significant first.  Every          *)
(* operation rounds its exact result to nearest, ties to even.  numpy      *)
(* float division by zero warns and yields inf or nan; it does not raise.  *)
(* The magnitudes met here stay clear of subnormals and of overflow.       *)
(***************************************************************************)
Limb == 2^14

Sign(x) == IF x > 0 THEN 1 ELSE IF x < 0 THEN -1 ELSE 0

Abs(x) == IF x < 0 THEN -x ELSE x

Special(k, sign) == [k |-> k, sign |-> sign, m |-> <<0, 0, 0, 0>>, e |-> 0]

PosInf == Special("inf", 1)

NegInf == Special("inf", -1)

NaN == Special("nan", 1)

Zero == Special("zero", 1)

\* Naturals of any size are sequences of limbs, least significant first.
\* Limb k (from 0) of a, zero outside it.
LimbAt(a, k) == IF k >= 0 /\ k < Len(a) THEN a[k + 1] ELSE 0

\* The limbs of a sequence of column sums, carries (or borrows) propagated
\* from column k on.
RECURSIVE Carry(_, _, _)
Carry(cols, k, c) ==
    IF k > Len(cols) THEN <<>>
    ELSE <<(cols[k] + c) % Limb>> \o Carry(cols, k + 1, (cols[k] + c) \div Limb)

\* a + b and a - b (for a >= b) on n limbs.
BigAdd(a, b, n) == Carry([k \in 1..n |-> LimbAt(a, k - 1) + LimbAt(b, k - 1)], 1, 0)

BigSub(a, b, n) == Carry([k \in 1..n |-> LimbAt(a, k - 1) - LimbAt(b, k - 1)], 1, 0)

BigLt(a, b) ==
    LET n == IF Len(a) > Len(b) THEN Len(a) ELSE Len(b)
    IN  \E i \in 0..(n - 1) : /\ LimbAt(a, i) < LimbAt(b, i)
                              /\ \A j \in (i + 1)..(n - 1) : LimbAt(a, j) = LimbAt(b, j)

BigIsZero(a) == \A i \in 1..Len(a) : a[i] = 0

\* The product of two significands, on eight limbs.
BigMul(a, b) ==
    LET term(k, i) == LimbAt(a, i) * LimbAt(b, k - i)
    IN  Carry([k \in 1..8 |-> term(k - 1, 0) + term(k - 1, 1)
                              + term(k - 1, 2) + term(k - 1, 3)], 1, 0)

\* floor(a / 2^s) and a * 2^s, on n limbs.
ShiftRight(a, s, n) ==
    LET ls == s \div 14
        bs == s % 14
    IN  [j \in 1..n |-> (LimbAt(a, j - 1 + ls) \div 2^bs)
                        + (LimbAt(a, j + ls) % 2^bs) * 2^(14 - bs)]

ShiftLeft(a, s, n) ==
    LET ls == s \div 14
        bs == s % 14
    IN  [j \in 1..n |-> ((LimbAt(a, j - 1 - ls) * 2^bs) % Limb)
                        + (LimbAt(a, j - 2 - ls) \div 2^(14 - bs))]

\* Bit i (from 0) of a, and whether any bit below bit s is set.
BitAt(a, i) == (LimbAt(a, i \div 14) \div 2^(i % 14)) % 2

LowNonzero(a, s) ==
    \/ \E j \in 0..((s \div 14) - 1) : LimbAt(a, j) # 0
    \/ LimbAt(a, s \div 14) % 2^(s % 14) # 0

\* The number of bits of a limb, and of a nonzero natural.
RECURSIVE Width(_)
Width(x) == IF x = 0 THEN 0 ELSE 1 + Width(x \div 2)

BigBits(a) ==
    LET top == CHOOSE i \in 1..Len(a) : a[i] # 0 /\ \A j \in (i + 1)..Len(a) : a[j] = 0
    IN  14 * (top - 1) + Width(a[top])

\* m + 1 on a significand.
Succ(m) == BigAdd(m, <<1>>, 4)

\* Round to nearest, ties to even: the significand m, the first bit below it
\* (half) and whether anything below that bit is set (sticky).
RoundEven(sign, m, e, half, sticky) ==
    IF half = 1 /\ (sticky \/ m[1] % 2 = 1)
    THEN IF m = <<Limb - 1, Limb - 1, Limb - 1, 2^11 - 1>>
         THEN [k |-> "fin", sign |-> sign, m |-> <<0, 0, 0, 2^10>>, e |-> e + 1]
         ELSE [k |-> "fin", sign |-> sign, m |-> Succ(m), e |-> e]
    ELSE [k |-> "fin", sign |-> sign, m |-> m, e |-> e]

\* The float64 nearest to sign * a * 2^x, a a nonzero natural.  sticky says
\* that the exact value lies above a * 2^x by less than 2^x; it is passed
\* only with naturals of more than 54 bits.
Round(sign, a, x, sticky) ==
    LET n == BigBits(a)
    IN  IF n <= 53
        THEN [k |-> "fin", sign |-> sign, m |-> ShiftLeft(a, 53 - n, 4), e |-> x + n - 1]
        ELSE RoundEven(sign, ShiftRight(a, n - 53, 4), x + n - 1,
                       BitAt(a, n - 54), sticky \/ LowNonzero(a, n - 54))

\* The float64 of an integer (exact).
Dbl(i) ==
    IF i = 0 THEN Zero
    ELSE Round(Sign(i), <<Abs(i) % Limb, (Abs(i) \div Limb) % Limb,
                          Abs(i) \div (Limb * Limb)>>, 0, FALSE)

\* The float64 literal 0.1 = 0x1.999999999999ap-4.
Tenth == [k |-> "fin", sign |-> 1, m |-> <<6554, 9830, 6553, 1638>>, e |-> -4]

\* a * b
DblMul(a, b) ==
    IF a.k = "nan" \/ b.k = "nan" THEN NaN
    ELSE IF a.k = "inf" \/ b.k = "inf"
         THEN IF a.k = "zero" \/ b.k = "zero" THEN NaN
              ELSE Special("inf", a.sign * b.sign)
    ELSE IF a.k = "zero" \/ b.k = "zero" THEN Special("zero", a.sign * b.sign)
    ELSE Round(a.sign * b.sign, BigMul(a.m, b.m), a.e + b.e - 104, FALSE)

\* A significand (or a natural below 2^54) as <<low, high>> halves of 27
\* bits, the form the long division works on.
Half == 2^27

Halves(m) == <<m[1] + (m[2] % 2^13) * 2^14, (m[2] \div 2^13) + m[3] * 2 + m[4] * 2^15>>

\* The next w bits of the quotient r/y, r < y, by long division:
\* <<bits, remainder>>.
RECURSIVE QuotBits(_, _, _, _)
QuotBits(r, y, w, acc) ==
    IF w = 0 THEN <<acc, r>>
    ELSE IF r = <<0, 0>> THEN <<acc * 2^w, r>>
    ELSE LET lo == (2 * r[1]) % Half
             hi == 2 * r[2] + ((2 * r[1]) \div Half)
             b  == IF lo < y[1] THEN 1 ELSE 0
         IN  IF hi > y[2] \/ (hi = y[2] /\ lo >= y[1])
             THEN QuotBits(<<lo - y[1] + b * Half, hi - y[2] - b>>, y, w - 1, 2 * acc + 1)
             ELSE QuotBits(<<lo, hi>>, y, w - 1, 2 * acc)

\* a / b
DblDiv(a, b) ==
    IF a.k = "nan" \/ b.k = "nan" THEN NaN
    ELSE IF a.k = "inf"
         THEN IF b.k = "inf" THEN NaN ELSE Special("inf", a.sign * b.sign)
    ELSE IF b.k = "inf" THEN Special("zero", a.sign * b.sign)
    ELSE IF b.k = "zero"
         THEN IF a.k = "zero" THEN NaN ELSE Special("inf", a.sign * b.sign)
    ELSE IF a.k = "zero" THEN Special("zero", a.sign * b.sign)
    ELSE LET x  == Halves(a.m)
             y  == Halves(b.m)
             q0 == IF x[2] > y[2] \/ (x[2] = y[2] /\ x[1] >= y[1]) THEN 1 ELSE 0
             bw == IF x[1] < y[1] THEN 1 ELSE 0
             r0 == IF q0 = 1 THEN <<x[1] - y[1] + bw * Half, x[2] - y[2] - bw>> ELSE x
             l4 == QuotBits(r0, y, 13, q0)
             l3 == QuotBits(l4[2], y, 14, 0)
             l2 == QuotBits(l3[2], y, 14, 0)
             l1 == QuotBits(l2[2], y, 14, 0)
         IN  Round(a.sign * b.sign, <<l1[1], l2[1], l3[1], l4[1]>>,
                   a.e - b.e - 55, l1[2] # <<0, 0>>)

\* a + b.  An operand more than 60 binary places below the other is lost
\* in the rounding.
DblAdd(a, b) ==
    IF a.k = "nan" \/ b.k = "nan" THEN NaN
    ELSE IF a.k = "inf"
         THEN IF b.k = "inf" /\ b.sign # a.sign THEN NaN ELSE a
    ELSE IF b.k = "inf" THEN b
    ELSE IF a.k = "zero"
         THEN IF b.k = "zero" /\ b.sign # a.sign THEN Zero ELSE b
    ELSE IF b.k = "zero" THEN a
    ELSE LET hi == IF a.e >= b.e THEN a ELSE b
             lo == IF a.e >= b.e THEN b ELSE a
             A  == ShiftLeft(hi.m, hi.e - lo.e, 9)
         IN  IF hi.e - lo.e > 60 THEN hi
             ELSE IF hi.sign = lo.sign
                  THEN Round(hi.sign, BigAdd(A, lo.m, 9), lo.e - 52, FALSE)
             ELSE IF BigLt(A, lo.m)
                  THEN Round(lo.sign, BigSub(lo.m, A, 9), lo.e - 52, FALSE)
             ELSE IF BigLt(lo.m, A)
                  THEN Round(hi.sign, BigSub(A, lo.m, 9), lo.e - 52, FALSE)
             ELSE Zero

\* a - b
DblSub(a, b) == DblAdd(a, IF b.k = "nan" THEN b ELSE [b EXCEPT !.sign = -@])

\* |a| < |b| for nonzero a and b.
MagLt(a, b) ==
    IF a.k = "inf" THEN FALSE
    ELSE IF b.k = "inf" THEN TRUE
    ELSE a.e < b.e \/ (a.e = b.e /\ BigLt(a.m, b.m))

\* a < b; any comparison with nan is false, and -0.0 equals 0.0.
DblLt(a, b) ==
    LET sa == IF a.k = "zero" THEN 0 ELSE a.sign
        sb == IF b.k = "zero" THEN 0 ELSE b.sign
    IN  IF a.k = "nan" \/ b.k = "nan" THEN FALSE
        ELSE IF sa # sb THEN sa < sb
        ELSE IF sa > 0 THEN MagLt(a, b)
        ELSE IF sa < 0 THEN MagLt(b, a)
        ELSE FALSE

\* a <= b
DblLe(a, b) ==
    /\ a.k # "nan" /\ b.k # "nan"
    /\ DblLt(a, b) \/ (a.k = "zero" /\ b.k = "zero") \/ a = b

\* 2./x for an integer x.
TwoOver(x) == DblDiv(Dbl(2), Dbl(x))

\* --------------------------------------------------- fitting window (219)

\* ihi = ilo+2000 in the FET branch of fittingRange.
FETLookahead == 2000

\* fittingRange with the TES upper edge taken inside trace[ipeak:] and the
\* offset ipeak forgotten.
fittingRangeNoOffset(trace, cut, sType) ==
    IF Len(trace) = 0 THEN Raise("ValueError")
    ELSE
    LET peak  == PyMax(trace)
        ipeak == ArgMax(trace)
        los   == NonzeroLE(trace, 0, ipeak, cut[1], cut[2], peak)
        his   == NonzeroLE(trace, ipeak, Len(trace), cut[1], cut[2], peak)
    IN  IF sType = "TES"
        THEN IF los = {} THEN Raise("IndexError")
             ELSE IF his = {} THEN Raise("IndexError")
             ELSE Ok(<<SetMax(los), SetMin(his)>>)
        ELSE IF sType = "FET"
        THEN Ok(<<ArgMax(trace) + 1, ArgMax(trace) + 1 + FETLookahead>>)
        ELSE Ok(<<0, Len(trace)>>)

(***************************************************************************)
(* fittingRange(trace, cut) reading the module global sensorType (sType).  *)
(* cut is the ratio cut[1]/cut[2].  Returns Ok(<<ilo, ihi>>), or the       *)
(* exception: max() of an empty trace is a ValueError, [0][-1] or [0][0]   *)
(* of an empty match array is an IndexError.                               *)
(***************************************************************************)
fittingRange(trace, cut, sType) ==
    IF Len(trace) = 0 THEN Raise("ValueError")
    ELSE
    LET peak  == PyMax(trace)
        ipeak == ArgMax(trace)
        los   == NonzeroLE(trace, 0, ipeak, cut[1], cut[2], peak)
        his   == NonzeroLE(trace, ipeak, Len(trace), cut[1], cut[2], peak)
    IN  IF sType = "TES"
        THEN IF los = {} THEN Raise("IndexError")
             ELSE IF his = {} THEN Raise("IndexError")
             ELSE Ok(<<SetMax(los), ipeak + SetMin(his)>>)
        ELSE IF sType = "FET"
        THEN Ok(<<ArgMax(trace) + 1, ArgMax(trace) + 1 + FETLookahead>>)
        ELSE Ok(<<0, Len(trace)>>)

\* ------------------------------------------------ initial guesses (131-197)

\* Threshold factors of the guess heuristics, as ratios num/den.
\* np.e, in millionths.
E6 == 2718282

Million == 1000 * 1000

(***************************************************************************)
(* guessTES(bins, trace).  The four threshold scans raise IndexError on an *)
(* empty match; when all four succeed the rise and fall guesses are        *)
(* computed with numpy arithmetic (which does not raise) and the function  *)
(* then calls pulseShape, a name bound nowhere in the module: NameError.   *)
(* It has no returning path.                                               *)
(***************************************************************************)
guessTES(bins, trace) ==
    IF Len(trace) = 0 THEN Raise("ValueError")
    ELSE
    LET peak  == PyMax(trace)
        ipeak == ArgMax(trace)
        n     == Len(trace)
        rlos  == NonzeroLE(trace, 0, ipeak, 1, 10, peak)
        rhis  == NonzeroLE(trace, 0, ipeak, 2 * E6, 10 * Million, peak)
        flos  == NonzeroLE(trace, ipeak, n, 8, 10, peak)
        fhis  == NonzeroLE(trace, ipeak, n, 4 * Million, 10 * E6, peak)
    IN  IF rlos = {} \/ rhis = {} \/ flos = {} \/ fhis = {}
        THEN Raise("IndexError")
        ELSE Raise("NameError")

(***************************************************************************)
(* guessFET(bins, trace): <<scaleGuess, decayGuess, recoveryGuess,         *)
(* offsetGuess>>.  dhi, rlo and rhi are indices into the slices            *)
(* trace[ipeak:] and trace[imin:] and are used, as in the source, to index *)
(* bins directly.                                                          *)
(***************************************************************************)
guessFET(bins, trace) ==
    IF Len(trace) = 0 THEN Raise("ValueError")
    ELSE
    LET peak    == PyMax(trace)
        ipeak   == ArgMax(trace)
        n       == Len(trace)
        starts  == {i \in 0..(n - 1) : At(bins, i) >= 0}
        istart  == SetMin(starts) + 1
        offset  == ipeak - istart
        dhis    == NonzeroGE(trace, ipeak, n, Million, 2 * E6, peak)
        dhi     == SetMax(dhis)
        decay   == TwoOver(At(bins, dhi) - At(bins, 0))
        tmin    == PyMin(trace)
        imin    == ArgMin(trace)
        tlast   == PyMax(Slice(trace, imin, n))
        rlos    == NonzeroGE(trace, imin, n, 8, 10, tmin)
        rlo     == SetMin(rlos)
        \* min(tmin*0.4/e, tlast)
        useTmin == tmin * 4 * Million < tlast * 10 * E6
        rhis    == IF useTmin THEN NonzeroGE(trace, imin, n, 4 * Million, 10 * E6, tmin)
                   ELSE NonzeroGE(trace, imin, n, 1, 1, tlast)
        rhi     == SetMin(rhis)
        rawRec  == TwoOver(At(bins, rhi) - At(bins, rlo))
        recov   == IF tmin < 0
                   THEN IF DblLt(rawRec, DblMul(Tenth, decay)) THEN Zero ELSE rawRec
                   ELSE Zero
        scale   == DblDiv(Dbl(peak), DblSub(decay, recov))
    IN  IF starts = {} THEN Raise("IndexError")
        ELSE IF dhis = {} THEN Raise("IndexError")
        ELSE IF tmin < 0 /\ rlos = {} THEN Raise("IndexError")
        ELSE IF tmin < 0 /\ rhis = {} THEN Raise("IndexError")
        ELSE Ok(<<scale, decay, recov, Dbl(offset)>>)

\* -------------------------------------------------- bounds policy (200-216)

\* The bounds (-np.inf, np.inf): every parameter unconstrained.
Unconstrained == <<NegInf, PosInf>>

(***************************************************************************)
(* The module namespace never binds the name guess: trace_fitting's guess  *)
(* is a local of trace_fitting, and guessRange receives the guess          *)
(* FUNCTION, not the guess.                                                *)
(***************************************************************************)
GlobalGuess == "unbound"

\* Lines 207-214 on a guess vector g: (0.1*g, 5*g), opened where g[i] == 0.
boundsOf(g) ==
    << [i \in 1..Len(g) |-> IF g[i].k = "zero" THEN NegInf ELSE DblMul(Tenth, g[i])],
       [i \in 1..Len(g) |-> IF g[i].k = "zero" THEN PosInf ELSE DblMul(Dbl(5), g[i])] >>

(***************************************************************************)
(* guessRange(guessFunc): unconstrained for None; otherwise the body reads *)
(* the name guess, which is looked up in the module namespace.             *)
(***************************************************************************)
guessRange(guessFunc) ==
    IF guessFunc = None THEN Ok(Unconstrained)
    ELSE IF GlobalGuess = "unbound" THEN Raise("NameError")
    ELSE Ok(boundsOf(GlobalGuess))

\* ------------------------------------------------ command line (327-373)

\* The words a command line is made of.
Tokens == {"-c", "-d", "-e", "-h", "-p", "-s", "-v", "7", "FET", "f.root"}

IsOption(t) == t \in {"-c", "-d", "-e", "-h", "-p", "-s", "-v"}

\* The option string 'c:d:e:hpv' of the getopt call: options taking a value,
\* and flags.
OptsWithArg == {"-c", "-d", "-e"}

OptsNoArg == {"-h", "-p", "-v"}

\* int(a): the value of a decimal word, ValueError otherwise.
IsInt(a) == a \in {"7"}

IntOf(a) == CASE a = "7" -> 7

(***************************************************************************)
(* getopt.getopt(args, 'c:d:e:hpv'): options are read up to the first word *)
(* that is not one; an option outside the option string, or a value option *)
(* with no word after it, raises GetoptError.                              *)
(***************************************************************************)
RECURSIVE getopt(_, _)
getopt(args, opts) ==
    IF args = <<>> \/ ~IsOption(Head(args)) THEN [st |-> "ok", opts |-> opts, args |-> args]
    ELSE IF Head(args) \in OptsNoArg
    THEN getopt(Tail(args), Append(opts, <<Head(args), "">>))
    ELSE IF Head(args) \in OptsWithArg
    THEN IF Tail(args) = <<>> THEN [st |-> "GetoptError", opts |-> opts, args |-> args]
         ELSE getopt(Tail(Tail(args)), Append(opts, <<Head(args), Head(Tail(args))>>))
    ELSE [st |-> "GetoptError", opts |-> opts, args |-> args]

DefaultSettings(file) ==
    [file |-> file, detname |-> "", event |-> 0, channel |-> 0,
     sensor |-> "TES", doplot |-> FALSE]

NoSettings == DefaultSettings("")

(***************************************************************************)
(* The option loop of getargs, one option at a time.  st is "ok", or how   *)
(* the loop ended early: "exit0" (-h), "ValueError" (int of a non-number), *)
(* "NameError" (-v evaluates the unbound name true before setVerbose is    *)
(* entered).                                                               *)
(***************************************************************************)
RECURSIVE optLoop(_, _)
optLoop(opts, settings) ==
    IF opts = <<>> THEN [st |-> "ok", settings |-> settings]
    ELSE LET o == Head(opts)[1]
             a == Head(opts)[2]
         IN  IF o = "-c"
             THEN IF IsInt(a) THEN optLoop(Tail(opts), [settings EXCEPT !.channel = IntOf(a)])
                  ELSE [st |-> "ValueError", settings |-> settings]
             ELSE IF o = "-d"
             THEN optLoop(Tail(opts), [settings EXCEPT !.detname = a])
             ELSE IF o = "-e"
             THEN IF IsInt(a) THEN optLoop(Tail(opts), [settings EXCEPT !.event = IntOf(a)])
                  ELSE [st |-> "ValueError", settings |-> settings]
             ELSE IF o = "-h" THEN [st |-> "exit0", settings |-> settings]
             ELSE IF o = "-p"
             THEN optLoop(Tail(opts), [settings EXCEPT !.doplot = TRUE])
             ELSE IF o = "-s"
             THEN optLoop(Tail(opts), [settings EXCEPT !.sensor = a])
             ELSE IF o = "-v" THEN [st |-> "NameError", settings |-> settings]
             ELSE optLoop(Tail(opts), settings)

\* getargs() on sys.argv[1:] = av: [st, settings, usage], usage telling
\* whether usage() printed.
getargs(av) ==
    LET g == getopt(av, <<>>)
    IN  IF g.st # "ok" THEN [st |-> "exit2", settings |-> NoSettings, usage |-> FALSE]
        ELSE IF Len(g.args) = 0 THEN [st |-> "exit2", settings |-> NoSettings, usage |-> TRUE]
        ELSE LET r == optLoop(g.opts, DefaultSettings(g.args[1]))
             IN  [st |-> r.st, settings |-> r.settings, usage |-> r.st = "exit0"]

CommandLines == UNION {[1..n -> Tokens] : n \in 0..MaxArgv}

\* ------------------------------------------------------------ the process

VARIABLES
    sensorType,   \* module global sensorType (line 53), set by traceFit
    verbose,      \* module global verbose (line 42)
    pc,           \* where the interpreter stands
    argv,         \* sys.argv[1:] of a script run
    call,         \* the top-level call in progress and its arguments
    data,         \* the bins and trace arrays in use
    fit,          \* the frame of trace_fitting
    out,          \* what the top-level call returned or raised
    console,      \* what the call printed, by kind
    exit          \* the process exit status, -1 while it runs

vars == <<sensorType, verbose, pc, argv, call, data, fit, out, console, exit>>

Sensors == {"TES", "FET", "XYZ"}

\* No call in progress.  args are traceFit's arguments (the settings), cut the
\* cut of a direct fittingRange call, entered whether traceFit has been
\* entered, prev the sensorType found on entry.
NoCall == [fn |-> "", args |-> NoSettings, cut |-> <<0, 1>>, entered |-> FALSE,
           prev |-> None, plotted |-> FALSE]

NoData == [bins |-> <<>>, trace |-> <<>>]

NoFit == [shape |-> None, guessFunc |-> None, dobounds |-> FALSE,
          steps |-> <<>>, branch |-> "", window |-> <<>>, guess |-> <<>>,
          bounds |-> <<>>, solverCalls |-> 0, xdata |-> <<>>, ydata |-> <<>>,
          p0 |-> <<>>, params |-> <<>>]

Running == [st |-> "running", val |-> <<>>]

\* The state after the module body has run (lines 11-53).
Init ==
    /\ sensorType = None
    /\ verbose = FALSE
    /\ pc = "start"
    /\ argv = <<>>
    /\ call = NoCall
    /\ data = NoData
    /\ fit = NoFit
    /\ out = Running
    /\ console = {}
    /\ exit = -1

\* What the external trace source can hand back: a trace and its bin axis.
TraceSource == {[bins |-> BinAxis(b0, Len(t)), trace |-> t] : t \in Traces, b0 \in BinStarts}

\* What the external solver can answer on data y: it refuses empty data with
\* a ValueError; otherwise it converges to a parameter vector (the second
\* with a zero recovery rate) or gives up with a RuntimeError.
SolverAnswers(y) ==
    IF y = <<>> THEN {Raise("ValueError")}
    ELSE {Ok(<<Dbl(5), Dbl(2), Dbl(20), Dbl(5)>>),
          Ok(<<Dbl(1), DblDiv(Dbl(1), Dbl(2)), Zero, Zero>>),
          Raise("RuntimeError")}

\* An uncaught exception or a sys.exit ends a script run; a library caller
\* gets the exception and the interpreter lives on.
StatusOf(st) == IF st = "exit0" \/ st = "ok" THEN 0 ELSE IF st = "exit2" THEN 2 ELSE 1

\* main(), lines 323-325 and 378-379: getargs, then traceFit(**settings).
Main ==
    /\ pc = "start"
    /\ \E av \in CommandLines :
         LET r == getargs(av)
         IN  /\ argv' = av
             /\ console' = IF r.usage THEN {"usage"} ELSE {}
             /\ IF r.st = "ok"
                THEN /\ call' = [NoCall EXCEPT !.fn = "main", !.args = r.settings]
                     /\ pc' = "traceFit"
                     /\ out' = Running
                     /\ exit' = -1
                ELSE /\ call' = [NoCall EXCEPT !.fn = "main"]
                     /\ pc' = "exited"
                     /\ out' = Raise(r.st)
                     /\ exit' = StatusOf(r.st)
    /\ UNCHANGED <<sensorType, verbose, data, fit>>

\* The module is imported instead of run: its functions are called from outside.
Import ==
    /\ pc = "start"
    /\ pc' = "idle"
    /\ UNCHANGED <<sensorType, verbose, argv, call, data, fit, out, console, exit>>

\* setVerbose(vb), lines 46-48.
setVerbose ==
    /\ pc = "idle"
    /\ \E vb \in BOOLEAN : verbose' = vb
    /\ UNCHANGED <<sensorType, pc, argv, call, data, fit, out, console, exit>>

\* A caller invokes traceFit(file, detname, sensor, event, channel, doplot).
CallTraceFit ==
    /\ pc = "idle"
    /\ \E s \in Sensors, dp \in BOOLEAN :
         call' = [NoCall EXCEPT !.fn = "traceFit",
                                !.args = [DefaultSettings("f.root") EXCEPT
                                             !.sensor = s, !.doplot = dp]]
    /\ pc' = "traceFit"
    /\ data' = NoData
    /\ fit' = NoFit
    /\ out' = Running
    /\ console' = {}
    /\ UNCHANGED <<sensorType, verbose, argv, exit>>

\* traceFit recording the sensor only while none is recorded yet.
recordSensorOnce(sensor, old) == IF old = None THEN sensor ELSE old

\* The sensor recorded by traceFit for the low-level functions (lines 61-62).
recordSensor(sensor, old) == sensor

\* traceFit with the TES worker as the fall-through branch.
dispatchDefaultTES(sensor) ==
    IF sensor = "FET" THEN "traceFit_FET" ELSE "traceFit_TES"

\* Which worker traceFit runs for a sensor argument (lines 64-70).
dispatch(sensor) ==
    IF sensor = "TES" THEN "traceFit_TES"
    ELSE IF sensor = "FET" THEN "traceFit_FET"
    ELSE "invalid"

\* traceFit, lines 55-70.  (The command line is not read again: it is
\* dropped from the state here.)
traceFit ==
    /\ pc = "traceFit"
    /\ sensorType' = recordSensor(call.args.sensor, sensorType)
    /\ call' = [call EXCEPT !.entered = TRUE, !.prev = sensorType]
    /\ argv' = <<>>
    /\ IF dispatch(call.args.sensor) = "invalid"
       THEN /\ console' = console \cup {"Invalid sensor type"}
            /\ out' = Raise("exit2")
            /\ exit' = 2
            /\ pc' = "exited"
       ELSE /\ pc' = dispatch(call.args.sensor)
            /\ UNCHANGED <<console, out, exit>>
    /\ UNCHANGED <<verbose, data, fit>>

\* How a raised exception leaves the call.
Raised(r) ==
    /\ out' = r
    /\ pc' = "raised"

\* traceFit_TES up to its call of trace_fitting, lines 73-82: the trace is
\* read, max(trace) is taken, trace_fitting(bins, trace, TESshape, guessTES).
traceFit_TES ==
    /\ pc = "traceFit_TES"
    /\ \E d \in TraceSource :
         /\ data' = d
         /\ IF Len(d.trace) = 0
            THEN /\ Raised(Raise("ValueError"))
                 /\ fit' = fit
            ELSE /\ fit' = [NoFit EXCEPT !.shape = "TESshape", !.guessFunc = "guessTES",
                                         !.dobounds = TRUE]
                 /\ pc' = "tf_window"
                 /\ out' = out
    /\ UNCHANGED <<sensorType, verbose, argv, call, console, exit>>

\* traceFit_FET up to its call of trace_fitting, lines 94-103:
\* trace_fitting(bins, trace, FETshape, guessFET, False).
traceFit_FET ==
    /\ pc = "traceFit_FET"
    /\ \E d \in TraceSource :
         /\ data' = d
         /\ fit' = [NoFit EXCEPT !.shape = "FETshape", !.guessFunc = "guessFET",
                                 !.dobounds = FALSE]
    /\ pc' = "tf_window"
    /\ UNCHANGED <<sensorType, verbose, argv, call, out, console, exit>>

\* A caller invokes trace_fitting(bins, trace, pulseShape, guessFunc, dobounds).
CallTraceFitting ==
    /\ pc = "idle"
    /\ \E d \in TraceSource, sh \in {"TESshape", "FETshape"},
          gf \in {None, "guessTES", "guessFET"}, db \in BOOLEAN :
         /\ data' = d
         /\ fit' = [NoFit EXCEPT !.shape = sh, !.guessFunc = gf, !.dobounds = db]
    /\ call' = [NoCall EXCEPT !.fn = "trace_fitting", !.prev = sensorType]
    /\ pc' = "tf_window"
    /\ out' = Running
    /\ console' = {}
    /\ UNCHANGED <<sensorType, verbose, argv, exit>>

\* The default cut of fittingRange (line 219).
DefaultCut == <<1, 5>>

\* trace_fitting, line 256: start, end = fittingRange(trace).
tfWindow ==
    /\ pc = "tf_window"
    /\ LET r == fittingRange(data.trace, DefaultCut, sensorType)
       IN  IF r.st = "ok"
           THEN /\ fit' = [fit EXCEPT !.window = r.val, !.branch = sensorType,
                                      !.steps = Append(@, "window")]
                /\ pc' = "tf_guess"
                /\ out' = out
           ELSE /\ fit' = [fit EXCEPT !.branch = sensorType, !.steps = Append(@, "window")]
                /\ Raised(r)
    /\ UNCHANGED <<sensorType, verbose, argv, call, data, console, exit>>

\* guessFunc(bins, trace) for the guess function named gf.
applyGuess(gf, bins, trace) ==
    IF gf = "guessTES" THEN guessTES(bins, trace) ELSE guessFET(bins, trace)

\* trace_fitting, line 258: guess = guessFunc(bins, trace) if guessFunc else None.
tfGuess ==
    /\ pc = "tf_guess"
    /\ LET r == IF fit.guessFunc = None THEN Ok(<<>>)
                ELSE applyGuess(fit.guessFunc, data.bins, data.trace)
       IN  IF r.st = "ok"
           THEN /\ fit' = [fit EXCEPT !.guess = r.val, !.steps = Append(@, "guess")]
                /\ pc' = "tf_bounds"
                /\ out' = out
           ELSE /\ fit' = [fit EXCEPT !.steps = Append(@, "guess")]
                /\ Raised(r)
    /\ UNCHANGED <<sensorType, verbose, argv, call, data, console, exit>>

\* trace_fitting, line 259:
\* bounds = guessRange(guessFunc) if dobounds else (-np.inf, np.inf).
tfBounds ==
    /\ pc = "tf_bounds"
    /\ LET r == IF fit.dobounds THEN guessRange(fit.guessFunc) ELSE Ok(Unconstrained)
       IN  IF r.st = "ok"
           THEN /\ fit' = [fit EXCEPT !.bounds = r.val, !.steps = Append(@, "bounds")]
                /\ pc' = "tf_solve"
                /\ out' = out
           ELSE /\ fit' = [fit EXCEPT !.steps = Append(@, "bounds")]
                /\ Raised(r)
    /\ console' = IF fit.dobounds THEN console \cup {"guessRange"} ELSE console
    /\ UNCHANGED <<sensorType, verbose, argv, call, data, exit>>

\* a[start:end]: Python clamps a slice to the array.
PySlice(a, start, end) ==
    Slice(a, IF start < Len(a) THEN start ELSE Len(a), IF end < Len(a) THEN end ELSE Len(a))

(***************************************************************************)
(* trace_fitting, lines 263-268: the one curve_fit call, on bins[start:end]*)
(* and trace[start:end] with p0 = guess and the bounds, then the unpacking *)
(* of its four parameters and the return.  The solver is external.         *)
(***************************************************************************)
tfSolve ==
    /\ pc = "tf_solve"
    /\ LET x == PySlice(data.bins, fit.window[1], fit.window[2])
           y == PySlice(data.trace, fit.window[1], fit.window[2])
       IN  \E ans \in SolverAnswers(y) :
             /\ fit' = [fit EXCEPT !.solverCalls = @ + 1, !.xdata = x, !.ydata = y,
                                   !.p0 = fit.guess, !.params = ans.val,
                                   !.steps = Append(@, "solve")]
             /\ IF ans.st # "ok" THEN Raised(ans)
                ELSE IF call.fn = "trace_fitting"
                THEN /\ out' = Ok(ans.val)
                     /\ pc' = "returned"
                ELSE /\ out' = out
                     /\ pc' = IF call.args.doplot THEN "plot" ELSE "report"
    /\ UNCHANGED <<sensorType, verbose, argv, call, data, console, exit>>

(***************************************************************************)
(* trace_plots and trace_overlay, lines 271-318, called when doplot: the   *)
(* overlay asks fittingRange(trace) for the window again and the two image *)
(* files are saved.                                                        *)
(***************************************************************************)
trace_plots ==
    /\ pc = "plot"
    /\ LET r == fittingRange(data.trace, DefaultCut, sensorType)
       IN  IF r.st = "ok"
           THEN /\ call' = [call EXCEPT !.plotted = TRUE]
                /\ pc' = "report"
                /\ out' = out
           ELSE /\ call' = call
                /\ Raised(r)
    /\ UNCHANGED <<sensorType, verbose, argv, data, fit, console, exit>>

(***************************************************************************)
(* The report after the fit.  traceFit_FET (lines 107-111) prints the      *)
(* rates and their reciprocals (numpy division: a zero rate prints inf).   *)
(* traceFit_TES (lines 86-92) formats titleName, a name it never binds:    *)
(* NameError before anything is printed.                                   *)
(***************************************************************************)
report ==
    /\ pc = "report"
    /\ IF call.args.sensor = "FET"
       THEN /\ console' = console \cup {"shape parameters"}
            /\ out' = Ok(<<>>)
            /\ pc' = "returned"
       ELSE /\ console' = console
            /\ Raised(Raise("NameError"))
    /\ UNCHANGED <<sensorType, verbose, argv, call, data, fit, exit>>

\* A caller invokes fittingRange(trace, cut).
CallFittingRange ==
    /\ pc = "idle"
    /\ \E t \in Traces, c \in Cuts :
         LET r == fittingRange(t, c, sensorType)
         IN  /\ call' = [NoCall EXCEPT !.fn = "fittingRange", !.cut = c, !.prev = sensorType]
             /\ data' = [NoData EXCEPT !.trace = t]
             /\ out' = r
             /\ pc' = IF r.st = "ok" THEN "returned" ELSE "raised"
    /\ fit' = NoFit
    /\ console' = {}
    /\ UNCHANGED <<sensorType, verbose, argv, exit>>

\* A caller invokes guessTES(bins, trace) or guessFET(bins, trace).
CallGuess ==
    /\ pc = "idle"
    /\ \E d \in TraceSource, gf \in {"guessTES", "guessFET"} :
         LET r == applyGuess(gf, d.bins, d.trace)
         IN  /\ call' = [NoCall EXCEPT !.fn = gf, !.prev = sensorType]
             /\ data' = d
             /\ out' = r
             /\ pc' = IF r.st = "ok" THEN "returned" ELSE "raised"
    /\ fit' = NoFit
    /\ console' = {}
    /\ UNCHANGED <<sensorType, verbose, argv, exit>>

\* A caller invokes guessRange(guessFunc).
CallGuessRange ==
    /\ pc = "idle"
    /\ \E gf \in {None, "guessTES", "guessFET"} :
         LET r == guessRange(gf)
         IN  /\ call' = [NoCall EXCEPT !.fn = "guessRange", !.prev = sensorType]
             /\ fit' = [NoFit EXCEPT !.guessFunc = gf]
             /\ out' = r
             /\ pc' = IF r.st = "ok" THEN "returned" ELSE "raised"
    /\ data' = NoData
    /\ console' = {"guessRange"}
    /\ UNCHANGED <<sensorType, verbose, argv, exit>>

\* The top-level call is over: a script run ends with it, a library caller
\* goes on.
Finish ==
    /\ pc \in {"returned", "raised"}
    /\ IF call.fn = "main"
       THEN /\ pc' = "exited"
            /\ exit' = StatusOf(out.st)
            /\ UNCHANGED <<call, data, fit, out, console>>
       ELSE /\ pc' = "idle"
            /\ call' = NoCall
            /\ data' = NoData
            /\ fit' = NoFit
            /\ out' = Running
            /\ console' = {}
            /\ exit' = exit
    /\ UNCHANGED <<sensorType, verbose, argv>>

Next ==
    \/ Main
    \/ Import
    \/ setVerbose
    \/ CallTraceFit
    \/ traceFit
    \/ traceFit_TES
    \/ traceFit_FET
    \/ CallTraceFitting
    \/ CallFittingRange
    \/ CallGuess
    \/ CallGuessRange
    \/ tfWindow
    \/ tfGuess
    \/ tfBounds
    \/ tfSolve
    \/ trace_plots
    \/ report
    \/ Finish

Spec == Init /\ [][Next]_vars

\* ------------------------------------------------------------ properties

InFit == pc \in {"tf_window", "tf_guess", "tf_bounds", "tf_solve", "plot", "report",
                 "returned", "raised", "exited"} /\ fit # NoFit

\* The stage of trace_fitting that ran last.
LastStep == IF fit.steps = <<>> THEN "" ELSE fit.steps[Len(fit.steps)]

IsPrefix(u, v) == Len(u) <= Len(v) /\ \A k \in 1..Len(u) : u[k] = v[k]

IsZero(a) == a.k = "zero"

IsNegative(a) == a.k \in {"fin", "inf"} /\ a.sign < 0

\* C1: trace_fitting runs window, guess, bounds, solve in this order: the
\* window comes from the full trace, the guess from the full bins and trace,
\* the bounds stage yields bounds derived from that guess when dobounds
\* (unconstrained otherwise), the solver is called exactly once on the
\* windowed arrays seeded with the guess, and its four parameters are returned.
C1_FitStepsInOrder ==
    InFit =>
      /\ IsPrefix(fit.steps, <<"window", "guess", "bounds", "solve">>)
      /\ fit.window # <<>> => Ok(fit.window) = fittingRange(data.trace, DefaultCut, fit.branch)
      /\ (Len(fit.steps) >= 2 /\ fit.guess # <<>>)
           => Ok(fit.guess) = applyGuess(fit.guessFunc, data.bins, data.trace)
      /\ Len(fit.steps) = 3
           => /\ pc = "tf_solve"
              /\ fit.bounds = IF fit.dobounds /\ fit.guessFunc # None
                              THEN boundsOf(fit.guess) ELSE Unconstrained
      /\ fit.solverCalls <= 1
      /\ fit.solverCalls = 1
           => /\ fit.xdata = PySlice(data.bins, fit.window[1], fit.window[2])
              /\ fit.ydata = PySlice(data.trace, fit.window[1], fit.window[2])
              /\ fit.p0 = fit.guess
      /\ (call.fn = "trace_fitting" /\ pc = "returned")
           => out.st = "ok" /\ Len(out.val) = 4 /\ out.val = fit.params

\* C2: guessRange maps the guess to bounds: (0.1*g, 5*g) for every parameter
\* g # 0, (-inf, inf) for g = 0, and everything unconstrained when no guess
\* function is used; so a call with a guess function yields bounds.
C2_BoundsPolicy ==
    /\ (call.fn = "guessRange" /\ pc \in {"returned", "raised"})
         => /\ out.st = "ok"
            /\ fit.guessFunc = None => out.val = Unconstrained
    /\ (InFit /\ fit.dobounds /\ LastStep = "bounds")
         => IF fit.guessFunc = None THEN fit.bounds = Unconstrained
            ELSE /\ Len(fit.bounds) = 2
                 /\ \A i \in 1..Len(fit.guess) :
                      IF IsZero(fit.guess[i])
                      THEN fit.bounds[1][i] = NegInf /\ fit.bounds[2][i] = PosInf
                      ELSE /\ fit.bounds[1][i] = DblMul(Tenth, fit.guess[i])
                           /\ fit.bounds[2][i] = DblMul(Dbl(5), fit.guess[i])

\* C3: the bounds that reach the solver bracket the guess (lower <= guess <=
\* upper for every constrained parameter), and a guess with a negative
\* component, whose derived pair has lower > upper, ends the fit with
\* DegenerateBounds at the bounds stage instead of reaching the solver.
C3_BoundsBracketGuess ==
    /\ (InFit /\ fit.solverCalls = 1 /\ fit.bounds # Unconstrained)
         => \A i \in 1..Len(fit.guess) :
              IsZero(fit.guess[i])
              \/ (DblLe(fit.bounds[1][i], fit.guess[i]) /\ DblLe(fit.guess[i], fit.bounds[2][i]))
    /\ (InFit /\ fit.dobounds /\ fit.guessFunc # None /\ Len(fit.steps) >= 3
          /\ \E i \in 1..Len(fit.guess) : IsNegative(fit.guess[i]))
         => pc = "raised" /\ LastStep = "bounds" /\ out.st = "DegenerateBounds"

\* C4: for every non-empty trace and both sensor kinds the window returned
\* by fittingRange satisfies 0 <= start < end <= len(trace).
C4_WindowInsideTrace ==
    (call.fn = "fittingRange" /\ pc = "returned" /\ Len(data.trace) > 0
       /\ sensorType \in {"TES", "FET"})
      => /\ 0 <= out.val[1]
         /\ out.val[1] < out.val[2]
         /\ out.val[2] <= Len(data.trace)

\* The threshold scans of the TES window and of the two guess functions, by
\* whether one of them matches no sample.
WindowScanEmpty(t, cut) ==
    /\ Len(t) > 0
    /\ \/ NonzeroLE(t, 0, ArgMax(t), cut[1], cut[2], PyMax(t)) = {}
       \/ NonzeroLE(t, ArgMax(t), Len(t), cut[1], cut[2], PyMax(t)) = {}

GuessScanEmpty(gf, bins, t) ==
    /\ Len(t) > 0
    /\ IF gf = "guessTES"
       THEN \/ NonzeroLE(t, 0, ArgMax(t), 1, 10, PyMax(t)) = {}
            \/ NonzeroLE(t, 0, ArgMax(t), 2 * E6, 10 * Million, PyMax(t)) = {}
            \/ NonzeroLE(t, ArgMax(t), Len(t), 8, 10, PyMax(t)) = {}
            \/ NonzeroLE(t, ArgMax(t), Len(t), 4 * Million, 10 * E6, PyMax(t)) = {}
       ELSE \/ {i \in 0..(Len(t) - 1) : At(bins, i) >= 0} = {}
            \/ NonzeroGE(t, ArgMax(t), Len(t), Million, 2 * E6, PyMax(t)) = {}
            \/ PyMin(t) < 0 /\ NonzeroGE(t, ArgMin(t), Len(t), 8, 10, PyMin(t)) = {}

\* C5: when a window or guess heuristic scans a sub-range in which no sample
\* satisfies the threshold, the attempt ends with FeatureNotFound raised by
\* that stage, not with an index fault.
C5_FeatureNotFound ==
    /\ (call.fn = "fittingRange" /\ pc \in {"returned", "raised"} /\ sensorType = "TES"
          /\ WindowScanEmpty(data.trace, call.cut))
         => pc = "raised" /\ out.st = "FeatureNotFound"
    /\ (call.fn \in {"guessTES", "guessFET"} /\ pc \in {"returned", "raised"}
          /\ GuessScanEmpty(call.fn, data.bins, data.trace))
         => pc = "raised" /\ out.st = "FeatureNotFound"
    /\ (InFit /\ LastStep = "window" /\ fit.branch = "TES"
          /\ WindowScanEmpty(data.trace, DefaultCut))
         => pc = "raised" /\ out.st = "FeatureNotFound"
    /\ (InFit /\ LastStep = "guess" /\ fit.guessFunc # None
          /\ GuessScanEmpty(fit.guessFunc, data.bins, data.trace))
         => pc = "raised" /\ out.st = "FeatureNotFound"

\* C6: traceFit with a sensor that is neither TES nor FET reports the invalid
\* sensor and exits with a non-zero status; no trace is read, no window or
\* guess is computed and the solver is never called in that invocation.
C6_InvalidSensorExits ==
    (call.entered /\ call.args.sensor \notin {"TES", "FET"})
      => /\ pc = "exited"
         /\ exit # 0 /\ exit # -1
         /\ "Invalid sensor type" \in console
         /\ data = NoData
         /\ fit = NoFit

\* C6 witness: an invocation with sensor XYZ has exited with status 2.
C6_Witness ==
    /\ call.entered /\ call.args.sensor = "XYZ"
    /\ pc = "exited" /\ exit = 2
    /\ "Invalid sensor type" \in console

\* The premise of C7: a pulse, that is a single positive peak at p, with
\* samples <= cut*peak somewhere on both sides of it, and a cut fraction
\* below 1.
Below(t, cut, i) == At(t, i) * cut[2] <= cut[1] * PyMax(t)

StrictlyBelow(t, cut, i) == At(t, i) * cut[2] < cut[1] * PyMax(t)

SinglePeak(t, cut) ==
    /\ Len(t) > 0
    /\ PyMax(t) > 0
    /\ cut[1] < cut[2]
    /\ Cardinality({i \in 0..(Len(t) - 1) : At(t, i) = PyMax(t)}) = 1
    /\ \E i \in 0..(ArgMax(t) - 1) : Below(t, cut, i)
    /\ \E i \in (ArgMax(t) + 1)..(Len(t) - 1) : Below(t, cut, i)

LastBelowBefore(t, cut) == SetMax({i \in 0..(ArgMax(t) - 1) : Below(t, cut, i)})

FirstBelowAfter(t, cut) == SetMin({i \in (ArgMax(t) + 1)..(Len(t) - 1) : Below(t, cut, i)})

TESWindowCall ==
    call.fn = "fittingRange" /\ pc \in {"returned", "raised"} /\ sensorType = "TES"

\* C7 as claimed: for TES and a single peak at p, start is the last index
\* before p with value <= cut*peak, end the first index after p with value
\* <= cut*peak, start < p < end, and no index of [start, end) has a value
\* below cut*peak.
C7_WindowExcludesBelowCut ==
    (TESWindowCall /\ SinglePeak(data.trace, call.cut))
      => /\ out.st = "ok"
         /\ out.val[1] = LastBelowBefore(data.trace, call.cut)
         /\ out.val[2] = FirstBelowAfter(data.trace, call.cut)
         /\ out.val[1] < ArgMax(data.trace) /\ ArgMax(data.trace) < out.val[2]
         /\ \A i \in out.val[1]..(out.val[2] - 1) : ~StrictlyBelow(data.trace, call.cut, i)

\* C7 amended: for TES, a cut below 1 and a single positive peak at p, start
\* is the last index before p with value <= cut*peak, end the first index
\* after p with value <= cut*peak, start < p < end, and every index of
\* [start, end) other than start has a value above cut*peak; start itself,
\* whose value is <= cut*peak, is the first index of the window.
C7_WindowAboveCutAfterStart ==
    (TESWindowCall /\ SinglePeak(data.trace, call.cut))
      => /\ out.st = "ok"
         /\ out.val[1] = LastBelowBefore(data.trace, call.cut)
         /\ out.val[2] = FirstBelowAfter(data.trace, call.cut)
         /\ out.val[1] < ArgMax(data.trace) /\ ArgMax(data.trace) < out.val[2]
         /\ Below(data.trace, call.cut, out.val[1])
         /\ \A i \in (out.val[1] + 1)..(out.val[2] - 1) : ~Below(data.trace, call.cut, i)

\* C7 witness: a TES window was returned for a single positive peak; its
\* first index holds a value below cut*peak and it spans three samples.
C7_Witness ==
    /\ TESWindowCall /\ pc = "returned"
    /\ SinglePeak(data.trace, call.cut)
    /\ StrictlyBelow(data.trace, call.cut, out.val[1])
    /\ out.val[2] - out.val[1] >= 3

\* C8: guessFET's decay guess is 2/(t_s - bins[0]), t_s the bin at the
\* full-trace index of the last sample at or after the peak with value
\* >= peak/(2e), whatever the peak position.
C8_DecayFromFullTraceIndex ==
    (call.fn = "guessFET" /\ pc = "returned")
      => LET t  == data.trace
             js == {j \in ArgMax(t)..(Len(t) - 1) : At(t, j) * 2 * E6 >= Million * PyMax(t)}
         IN  out.val[2] = TwoOver(At(data.bins, SetMax(js)) - At(data.bins, 0))

\* The command lines of the usage text: documented options with their
\* values (-s among them), then the file; docSettings and docVerbose are
\* what the usage text says they select.
DocValueOpts == {"-c", "-d", "-e", "-s"}

DocFlagOpts == {"-p", "-v"}

RECURSIVE wellFormed(_)
wellFormed(av) ==
    IF av = <<>> THEN FALSE
    ELSE IF ~IsOption(Head(av)) THEN Len(av) = 1
    ELSE IF Head(av) \in DocFlagOpts THEN wellFormed(Tail(av))
    ELSE IF Head(av) \in DocValueOpts /\ Len(av) >= 2
    THEN /\ Head(av) \in {"-c", "-e"} => IsInt(av[2])
         /\ Head(av) = "-s" => av[2] \in {"TES", "FET"}
         /\ Head(av) = "-d" => ~IsOption(av[2])
         /\ wellFormed(Tail(Tail(av)))
    ELSE FALSE

RECURSIVE docSettings(_, _)
docSettings(av, settings) ==
    IF ~IsOption(Head(av)) THEN [settings EXCEPT !.file = Head(av)]
    ELSE IF Head(av) = "-p" THEN docSettings(Tail(av), [settings EXCEPT !.doplot = TRUE])
    ELSE IF Head(av) = "-v" THEN docSettings(Tail(av), settings)
    ELSE IF Head(av) = "-c"
    THEN docSettings(Tail(Tail(av)), [settings EXCEPT !.channel = IntOf(av[2])])
    ELSE IF Head(av) = "-e"
    THEN docSettings(Tail(Tail(av)), [settings EXCEPT !.event = IntOf(av[2])])
    ELSE IF Head(av) = "-d"
    THEN docSettings(Tail(Tail(av)), [settings EXCEPT !.detname = av[2]])
    ELSE docSettings(Tail(Tail(av)), [settings EXCEPT !.sensor = av[2]])

RECURSIVE docVerbose(_)
docVerbose(av) ==
    IF ~IsOption(Head(av)) THEN FALSE
    ELSE IF Head(av) = "-v" THEN TRUE
    ELSE IF Head(av) = "-p" THEN docVerbose(Tail(av))
    ELSE docVerbose(Tail(Tail(av)))

\* C9: for every command line with the file and only documented flags,
\* getargs returns settings reflecting each flag given (-d, -e, -c, -s, -p)
\* with defaults for the rest, and -v turns verbose on.
C9_FlagsReflected ==
    (call.fn = "main" /\ pc \in {"traceFit", "exited"} /\ wellFormed(argv))
      => /\ pc = "traceFit"
         /\ call.args = docSettings(argv, DefaultSettings(""))
         /\ verbose = docVerbose(argv)

\* The choices that belong to a sensor kind.
ShapeOf(sensor) == IF sensor = "TES" THEN "TESshape" ELSE "FETshape"

GuessOf(sensor) == IF sensor = "TES" THEN "guessTES" ELSE "guessFET"

\* C10: during a traceFit invocation with sensor TES or FET the recorded
\* sensor kind is that invocation's own argument at every step, whatever the
\* earlier invocations were, and so is every sensor-dependent choice: the
\* pulse shape, the guess function, the window branch of fittingRange, and
\* bounds enabled for TES, disabled for FET.
C10_ChoicesFollowOwnSensor ==
    (call.entered /\ call.args.sensor \in {"TES", "FET"})
      => /\ sensorType = call.args.sensor
         /\ fit.branch \in {"", call.args.sensor}
         /\ fit # NoFit
              => /\ fit.shape = ShapeOf(call.args.sensor)
                 /\ fit.guessFunc = GuessOf(call.args.sensor)
                 /\ fit.dobounds = (call.args.sensor = "TES")
         /\ (pc \in {"tf_guess", "tf_bounds", "tf_solve", "plot", "report"}
               => fit.branch = call.args.sensor)

\* C10 witness: a FET invocation entered while the recorded sensor was still
\* TES from the invocation before it has chosen its window and called the
\* solver.
C10_Witness ==
    /\ call.entered /\ call.args.sensor = "FET" /\ call.prev = "TES"
    /\ fit.branch = "FET" /\ fit.solverCalls = 1
    /\ fit.shape = "FETshape" /\ ~fit.dobounds
    /\ pc = "returned" /\ "shape parameters" \in console

====
